---- MODULE Spec2Model ----
(***************************************************************************)
(* sandpack-bundler: the compile orchestrator (SandpackInstance in         *)
(* src/index.ts) and the React preset's transformer dispatch               *)
(* (ReactPreset in src/bundler/presets/react/ReactPreset.ts).              *)
(*                                                                         *)
(* Spec    : the orchestrator.  Host messages arrive, compile requests go  *)
(*           through the 50 ms Debouncer, handleCompile runs as an async   *)
(*           function that suspends at its two awaits.                      *)
(* MapSpec : ReactPreset.mapTransformers applied to bounded file paths.    *)
(* PresetSpec : getPreset (presets/registry.ts) applied to a template name *)
(*           and ReactPreset.augmentDependencies applied to a dependency   *)
(*           map.                                                          *)
(*                                                                         *)
(* Scheduling is the browser's: one cooperative task queue.  Every action  *)
(* below is one run-to-completion step (a message handler, a timer         *)
(* callback, or the continuation of an await).                             *)
(***************************************************************************)
EXTENDS Integers, Sequences, FiniteSets, TLC

\* Compile messages the host sends during one lifetime of the page.
MaxReq == 2

Requests == 1..MaxReq

\* No request is pending in the Debouncer.
NoTimer == 0

\* The transformers ReactPreset.init registers concurrently (ReactPreset.ts:21-26):
\* BabelTransformer, ReactRefreshTransformer, CSSTransformer, StyleTransformer.
\* Promise.all treats them alike, so a cycle keeps the number fulfilled so far.
NumTransformers == 4

VARIABLES
  timer,        \* Debouncer: the request whose callback the pending timeout holds, or NoTimer
  nreq,         \* compile messages received so far
  pc,           \* pc[r]: where request r / its handleCompile invocation stands
  registered,   \* registered[r]: how many registerTransformer promises of r's init fulfilled
  evaluate,     \* evaluate[r]: the local `evaluate` of handleCompile is a function
  integration,  \* integration[r]: state of the integrations.load promise of the cycle
  trace,        \* trace[r]: messages sent and collaborator calls made by cycle r, in order
  isFirstLoad,  \* bundler.isFirstLoad
  filepath,     \* MapSpec: module.filepath, a sequence of characters
  result,       \* MapSpec: outcome of mapTransformers(module)
  presetName,   \* PresetSpec: the name handed to getPreset
  preset,       \* PresetSpec: outcome of getPreset(presetName)
  warnings,     \* PresetSpec: what logger.warn was given, in order
  depsIn,       \* PresetSpec: the dependency map as the caller built it
  deps,         \* PresetSpec: the same object, which augmentDependencies writes into
  calls         \* PresetSpec: augmentDependencies calls made on deps

orchVars == <<timer, nreq, pc, registered, evaluate, integration, trace, isFirstLoad>>
mapVars == <<filepath, result>>
presetVars == <<presetName, preset, warnings, depsIn, deps, calls>>

vars == <<orchVars, mapVars, presetVars>>

----------------------------------------------------------------------------
(* Outbound messages and collaborator calls                                *)

\* messageBus.sendMessage(type, {key: val})
Msg(type, key, val) == [kind |-> "send", type |-> type, key |-> key, val |-> val]

\* a synchronous call on a collaborator (bundler, integrations, the evaluated
\* program) and how it ended: "returns" or "throws"
CallEnds(name, how) == [kind |-> "call", type |-> name, key |-> "", val |-> how]

Call(name) == CallEnds(name, "returns")

\* the promise a collaborator returned settles: "fulfilled" or "rejected"
Settles(name, how) == [kind |-> "settle", type |-> name, key |-> "", val |-> how]

\* sendMessage('status', { status: s }) as handleCompile sends it.  The statuses the
\* Bundler reports through onStatusChange (index.ts:108-110) and the errors the
\* runtime-error listener reports after a cycle (index.ts:37-51) come from
\* collaborators and are no part of a cycle's trace.
Status(s) == Msg("status", "status", s)

BoolStr(b) == IF b THEN "true" ELSE "false"

\* errorMessage(error): the show-error payload sent on the action channel
errorMessage == Msg("action", "action", "show-error")

\* The status values of a cycle, in the order sent.
RECURSIVE Vals(_)
Vals(s) == IF s = <<>> THEN <<>> ELSE <<Head(s).val>> \o Vals(Tail(s))

Statuses(r) == Vals(SelectSeq(trace[r], LAMBDA e : e.kind = "send" /\ e.type = "status"))

Count(s, e) == Cardinality({i \in 1..Len(s) : s[i] = e})

CountType(s, t) == Cardinality({i \in 1..Len(s) : s[i].kind = "send" /\ s[i].type = t})

Has(s, e) == \E i \in 1..Len(s) : s[i] = e

\* handleCompile has been invoked for r and has not returned/thrown yet
Active(r) == pc[r] \in {"initPreset", "compile", "afterCompile"}

\* handleCompile has been invoked for r
Started(r) == pc[r] \in {"initPreset", "compile", "afterCompile", "resolved", "rejected"}

\* the promise handleCompile returned is settled
Finished(r) == pc[r] \in {"resolved", "rejected"}

----------------------------------------------------------------------------
(* Init: the state after `new SandpackInstance()`                          *)

OrchInit ==
  /\ timer = NoTimer
  /\ nreq = 0
  /\ pc = [r \in Requests |-> "unsent"]
  /\ registered = [r \in Requests |-> 0]
  /\ evaluate = [r \in Requests |-> FALSE]
  /\ integration = [r \in Requests |-> "none"]
  /\ trace = [r \in Requests |-> <<>>]
  /\ isFirstLoad = TRUE

\* no module is being resolved
MapIdle ==
  /\ filepath = <<>>
  /\ result = [status |-> "none", chain |-> <<>>, message |-> <<>>]

\* no preset is being looked up, no dependency map is being augmented
PresetIdle ==
  /\ presetName = ""
  /\ preset = [status |-> "none", class |-> "", registered |-> FALSE]
  /\ warnings = <<>>
  /\ depsIn = <<>>
  /\ deps = <<>>
  /\ calls = 0

Init == OrchInit /\ MapIdle /\ PresetIdle

----------------------------------------------------------------------------
(* Debouncer (utils/Debouncer): a timeout handle that is cleared and       *)
(* re-armed on every debounce(fn) call.                                    *)

\* debounce(fn) for request r: a pending callback is discarded, r's is armed
Debounce(r) ==
  /\ timer' = r
  /\ pc' = [q \in Requests |->
              IF q = r THEN "queued"
              ELSE IF q = timer THEN "dropped"
              ELSE pc[q]]

----------------------------------------------------------------------------
(* handleParentMessage                                                     *)

\* A handler that leaves a pending request in place and discards the new message.
HandleParentMessage_KeepPending(r) ==
  /\ IF timer = NoTimer
     THEN Debounce(r)
     ELSE timer' = timer /\ pc' = [pc EXCEPT ![r] = "dropped"]
  /\ UNCHANGED <<registered, evaluate, integration, trace, isFirstLoad>>

\* A handler that also abandons the handleCompile invocations in progress.
HandleParentMessage_CancelActive(r) ==
  /\ timer' = r
  /\ pc' = [q \in Requests |->
              IF q = r THEN "queued"
              ELSE IF q = timer THEN "dropped"
              ELSE IF Active(q) THEN "rejected"
              ELSE pc[q]]
  /\ UNCHANGED <<registered, evaluate, integration, trace, isFirstLoad>>

\* case 'compile': this.compileDebouncer.debounce(() => this.handleCompile(message)...)
HandleParentMessage(r) ==
  /\ Debounce(r)
  /\ UNCHANGED <<registered, evaluate, integration, trace, isFirstLoad>>

ReceiveCompile ==
  /\ nreq < MaxReq
  /\ nreq' = nreq + 1
  /\ HandleParentMessage(nreq + 1)
  /\ UNCHANGED <<mapVars, presetVars>>

\* case 'refresh': window.location.reload() discards the page with every pending
\* timer and in-flight cycle; the reloaded page constructs a new SandpackInstance.
ReceiveRefresh ==
  /\ timer' = NoTimer
  /\ nreq' = 0
  /\ pc' = [r \in Requests |-> "unsent"]
  /\ registered' = [r \in Requests |-> 0]
  /\ evaluate' = [r \in Requests |-> FALSE]
  /\ integration' = [r \in Requests |-> "none"]
  /\ trace' = [r \in Requests |-> <<>>]
  /\ isFirstLoad' = TRUE
  /\ UNCHANGED <<mapVars, presetVars>>

----------------------------------------------------------------------------
(* handleCompile, index.ts:113-207                                         *)

\* What integrations.load does when compileRequest.reactDevTools is set:
\* "off" the field is unset, "throws" load throws synchronously,
\* "promise" load returns a promise that settles later.
DevTools == {"off", "throws", "promise"}

\* lines 113-148: from the call up to the suspension at `await initPreset`
HandleCompileStart(r, dt) ==
  /\ trace' = [trace EXCEPT ![r] =
       <<Call("configureFS"),
         Msg("start", "firstLoad", BoolStr(isFirstLoad)),
         Status("initializing")>>
       \o (IF isFirstLoad THEN <<Call("resetModules")>> ELSE <<>>)
       \o (CASE dt = "off" -> <<>>
             [] dt = "throws" -> <<CallEnds("integrations.load", "throws")>>
             [] dt = "promise" -> <<Call("integrations.load")>>)
       \o <<Call("initPreset")>>]
  /\ integration' = [integration EXCEPT ![r] =
       CASE dt = "off" -> "none"
         [] dt = "throws" -> "threw"
         [] dt = "promise" -> "loading"]
  /\ registered' = [registered EXCEPT ![r] = 0]
  /\ pc' = [pc EXCEPT ![r] = "initPreset"]
  /\ UNCHANGED <<evaluate, isFirstLoad>>

\* The Debouncer's timeout expires and runs the callback handed to debounce().
TimerFire ==
  /\ timer # NoTimer
  /\ timer' = NoTimer
  /\ \E dt \in DevTools : HandleCompileStart(timer, dt)
  /\ UNCHANGED <<nreq>>
  /\ UNCHANGED <<mapVars, presetVars>>

\* A rejection of integrations.load(...) that is reported on the action channel.
IntegrationSettle_Reported ==
  \E r \in Requests, ok \in BOOLEAN :
    /\ integration[r] = "loading"
    /\ integration' = [integration EXCEPT ![r] = IF ok THEN "loaded" ELSE "failed"]
    /\ trace' = [trace EXCEPT ![r] = IF ok THEN @ ELSE @ \o <<errorMessage>>]
    /\ UNCHANGED <<timer, nreq, pc, registered, evaluate, isFirstLoad>>
    /\ UNCHANGED <<mapVars, presetVars>>

\* the promise of integrations.load(...) settles; a rejection goes to logger.error
IntegrationSettle ==
  \E r \in Requests, ok \in BOOLEAN :
    /\ integration[r] = "loading"
    /\ integration' = [integration EXCEPT ![r] = IF ok THEN "loaded" ELSE "failed"]
    /\ UNCHANGED <<timer, nreq, pc, registered, evaluate, trace, isFirstLoad>>
    /\ UNCHANGED <<mapVars, presetVars>>

----------------------------------------------------------------------------
(* ReactPreset.init, ReactPreset.ts:17-27, reached through                 *)
(* bundler.initPreset(template)                                            *)

\* A join that is satisfied by the first registration (Promise.race / Promise.any).
PromiseAnyFulfilled(r) == registered[r] >= 1

\* Promise.all([...registerTransformer(t)...]) is fulfilled
PromiseAllFulfilled(r) == registered[r] = NumTransformers

\* one more registerTransformer(...) promise is fulfilled
RegisterOk ==
  \E r \in Requests :
    /\ pc[r] = "initPreset"
    /\ registered[r] < NumTransformers
    /\ registered' = [registered EXCEPT ![r] = @ + 1]
    /\ UNCHANGED <<timer, nreq, pc, evaluate, integration, trace, isFirstLoad>>
    /\ UNCHANGED <<mapVars, presetVars>>

\* one of the pending registerTransformer(...) promises is rejected: Promise.all rejects, init rejects,
\* initPreset rejects, and the `await` at index.ts:148 throws out of handleCompile.
RegisterFail ==
  \E r \in Requests :
    /\ pc[r] = "initPreset"
    /\ registered[r] < NumTransformers
    /\ trace' = [trace EXCEPT ![r] = @ \o <<Settles("initPreset", "rejected")>>]
    /\ pc' = [pc EXCEPT ![r] = "rejected"]
    /\ UNCHANGED <<timer, nreq, registered, evaluate, integration, isFirstLoad>>
    /\ UNCHANGED <<mapVars, presetVars>>

\* Bundler.initPreset(template) resolves the preset and awaits its init: its promise
\* is fulfilled when init's is.
InitPresetFulfilled(r) == PromiseAllFulfilled(r)

\* lines 149-156: init is done, handleCompile resumes and calls bundler.compile(files)
InitPresetDone ==
  \E r \in Requests :
    /\ pc[r] = "initPreset"
    /\ InitPresetFulfilled(r)
    /\ trace' = [trace EXCEPT ![r] =
         @ \o <<Settles("initPreset", "fulfilled"), Call("compile")>>]
    /\ pc' = [pc EXCEPT ![r] = "compile"]
    /\ UNCHANGED <<timer, nreq, registered, evaluate, integration, isFirstLoad>>
    /\ UNCHANGED <<mapVars, presetVars>>

----------------------------------------------------------------------------
(* lines 155-175: the promise of bundler.compile(files) settles            *)

\* .then((val) => { sendMessage('done', {compilatonError: false}); return val; })
CompileThen(r) ==
  /\ trace' = [trace EXCEPT ![r] =
       @ \o <<Settles("compile", "fulfilled"), Msg("done", "compilatonError", "false")>>]
  /\ evaluate' = [evaluate EXCEPT ![r] = TRUE]

\* A catch handler whose cycle still evaluates.
CompileCatch_StillEvaluates(r) ==
  /\ trace' = [trace EXCEPT ![r] =
       @ \o <<Settles("compile", "rejected"),
              errorMessage, Msg("done", "compilatonError", "true")>>]
  /\ evaluate' = [evaluate EXCEPT ![r] = TRUE]

\* .catch((error) => { sendMessage('action', errorMessage(error));
\*                     sendMessage('done', {compilatonError: true}); })
CompileCatch(r) ==
  /\ trace' = [trace EXCEPT ![r] =
       @ \o <<Settles("compile", "rejected"),
              errorMessage, Msg("done", "compilatonError", "true")>>]
  /\ evaluate' = [evaluate EXCEPT ![r] = FALSE]

\* Bundler.compile owns isFirstLoad: the flag is set until a compile clears it.
BundlerFirstLoad(cleared) == isFirstLoad' = (isFirstLoad /\ ~cleared)

CompileSettle ==
  \E r \in Requests, ok \in BOOLEAN, cleared \in BOOLEAN :
    /\ pc[r] = "compile"
    /\ IF ok THEN CompileThen(r) ELSE CompileCatch(r)
    /\ BundlerFirstLoad(cleared)
    /\ (~isFirstLoad => ~cleared)
    /\ pc' = [pc EXCEPT ![r] = "afterCompile"]
    /\ UNCHANGED <<timer, nreq, registered, integration>>
    /\ UNCHANGED <<mapVars, presetVars>>

----------------------------------------------------------------------------
(* lines 177-207: replace HTML, evaluate, idle                             *)

\* sendResizeEvent, lines 79-87: a resize message when the document height changed
SendResizeEvent(changed) ==
  <<Call("sendResizeEvent")>> \o (IF changed THEN <<Msg("resize", "height", "")>> ELSE <<>>)

\* An evaluation that does not test `if (evaluate)`.
Evaluation_Unguarded(r, throws, changed) ==
  <<Status("evaluating"), CallEnds("evaluate", IF throws THEN "throws" ELSE "returns")>>
  \o (IF throws THEN <<errorMessage>>
      ELSE SendResizeEvent(changed) \o <<Msg("success", "", "")>>)

\* lines 181-204
Evaluation(r, throws, changed) ==
  IF evaluate[r]
  THEN <<Status("evaluating"), CallEnds("evaluate", IF throws THEN "throws" ELSE "returns")>>
       \o (IF throws THEN <<errorMessage>>
           ELSE SendResizeEvent(changed) \o <<Msg("success", "", "")>>)
  ELSE <<>>

\* A handleCompile without the try/catch around evaluate(): the throw leaves it.
HandleCompileRest_NoCatch(r, throws, changed) ==
  IF evaluate[r] /\ throws
  THEN /\ trace' = [trace EXCEPT ![r] =
            @ \o <<Call("replaceHTML"), Status("evaluating"), CallEnds("evaluate", "throws")>>]
       /\ pc' = [pc EXCEPT ![r] = "rejected"]
  ELSE /\ trace' = [trace EXCEPT ![r] =
            @ \o <<Call("replaceHTML")>> \o Evaluation(r, throws, changed)
              \o <<Status("idle")>>]
       /\ pc' = [pc EXCEPT ![r] = "resolved"]

\* A handleCompile that reports idle before it evaluates.
HandleCompileRest_IdleFirst(r, throws, changed) ==
  /\ trace' = [trace EXCEPT ![r] =
       @ \o <<Call("replaceHTML"), Status("idle")>> \o Evaluation(r, throws, changed)]
  /\ pc' = [pc EXCEPT ![r] = "resolved"]

\* lines 177-207, from the resumption after `await compile` to the return
HandleCompileRest(r, throws, changed) ==
  /\ trace' = [trace EXCEPT ![r] =
       @ \o <<Call("replaceHTML")>> \o Evaluation(r, throws, changed) \o <<Status("idle")>>]
  /\ pc' = [pc EXCEPT ![r] = "resolved"]

AfterCompile ==
  \E r \in Requests, throws \in BOOLEAN, changed \in BOOLEAN :
    /\ pc[r] = "afterCompile"
    /\ (~evaluate[r] => ~throws /\ ~changed)
    /\ (throws => ~changed)
    /\ HandleCompileRest(r, throws, changed)
    /\ UNCHANGED <<timer, nreq, registered, evaluate, integration, isFirstLoad>>
    /\ UNCHANGED <<mapVars, presetVars>>

----------------------------------------------------------------------------
Next ==
  \/ ReceiveCompile
  \/ ReceiveRefresh
  \/ TimerFire
  \/ IntegrationSettle
  \/ RegisterOk
  \/ RegisterFail
  \/ InitPresetDone
  \/ CompileSettle
  \/ AfterCompile

Spec == Init /\ [][Next]_vars

\* A timeout that stays armed expires: the browser runs the Debouncer's callback.
FairSpec == Spec /\ WF_vars(TimerFire)

----------------------------------------------------------------------------
(* Properties of the orchestrator                                          *)

RECURSIVE IsSubseq(_, _)
\* s is a subsequence of t
IsSubseq(s, t) ==
  IF s = <<>> THEN TRUE
  ELSE IF t = <<>> THEN FALSE
  ELSE IF Head(s) = Head(t) THEN IsSubseq(Tail(s), Tail(t))
  ELSE IsSubseq(s, Tail(t))

\* what follows the first occurrence of e in s (s itself when e is absent)
After(s, e) ==
  IF Has(s, e)
  THEN LET i == CHOOSE k \in 1..Len(s) : s[k] = e /\ \A j \in 1..(k - 1) : s[j] # e
       IN SubSeq(s, i + 1, Len(s))
  ELSE s

Sends(s) == SelectSeq(s, LAMBDA e : e.kind = "send")

StatusOrder == <<"initializing", "evaluating", "idle">>

InitFailed(r) == Has(trace[r], Settles("initPreset", "rejected"))
CompileFailed(r) == Has(trace[r], Settles("compile", "rejected"))
CompileSucceeded(r) == Has(trace[r], Settles("compile", "fulfilled"))
EvaluateThrew(r) == Has(trace[r], CallEnds("evaluate", "throws"))

DoneFalse == Msg("done", "compilatonError", "false")
DoneTrue == Msg("done", "compilatonError", "true")

\* C1: every handleCompile invocation, on every path (preset init failure, compile
\* failure, evaluation failure, success), emits status values that form a
\* subsequence of initializing, evaluating, idle, and once the invocation has
\* ended they end in idle, sent exactly once.
C1_StatusesEndInIdle ==
  \A r \in Requests :
    /\ IsSubseq(Statuses(r), StatusOrder)
    /\ Finished(r) =>
         /\ Statuses(r) # <<>>
         /\ Statuses(r)[Len(Statuses(r))] = "idle"
         /\ Count(Statuses(r), "idle") = 1

\* C2: at most one handleCompile invocation is between its start and its end at
\* any time.
C2_AtMostOneActiveCycle == Cardinality({r \in Requests : Active(r)}) <= 1

\* C3: a compile request that arrives while an earlier one is still pending in the
\* Debouncer replaces it: the earlier request is dropped and the later one is the
\* pending one; the handleCompile of a dropped request never starts (it stays
\* dropped until the page is reloaded); the pending request leaves the Debouncer
\* only by being replaced, by starting its handleCompile, or by a reload; and a
\* pending timeout does expire, so the last request of a burst does start.
C3_PendingRequestReplaced ==
  /\ [][\A r \in Requests :
          (timer = r /\ nreq' = nreq + 1) =>
            (pc'[r] = "dropped" /\ trace'[r] = <<>> /\ timer' = nreq')]_vars
  /\ [][\A r \in Requests :
          pc[r] = "dropped" => (pc'[r] \in {"dropped", "unsent"} /\ trace'[r] = <<>>)]_vars
  /\ [][\A r \in Requests :
          (timer = r /\ timer' # r) => (Started(r)' \/ pc'[r] \in {"dropped", "unsent"})]_vars
  /\ (timer # NoTimer) ~> (timer = NoTimer)

\* two requests were received, the first was replaced while pending, the second ran
C3_Witness ==
  /\ MaxReq >= 2
  /\ pc[1] = "dropped"
  /\ Started(2)

\* C4: a finished cycle in which preset init failed, compile failed or evaluation
\* threw has sent exactly one action message.
C4_OneActionPerFatalCycle ==
  \A r \in Requests :
    (Finished(r) /\ (InitFailed(r) \/ CompileFailed(r) \/ EvaluateThrew(r)))
      => CountType(trace[r], "action") = 1

\* C5: the promise returned by handleCompile is never rejected.
C5_HandleCompileNeverRejects == \A r \in Requests : pc[r] # "rejected"

\* C6: when bundler.compile fails, the cycle goes on with exactly: the action
\* message, done with the error flag true, replaceHTML, status=idle; nothing of
\* the evaluation (status=evaluating, evaluate(), success) happens.
C6_CompileFailureRendersAndSkipsEvaluation ==
  \A r \in Requests :
    CompileFailed(r) =>
      /\ pc[r] \in {"afterCompile", "resolved"}
      /\ After(trace[r], Settles("compile", "rejected")) =
           (IF pc[r] = "afterCompile"
            THEN <<errorMessage, DoneTrue>>
            ELSE <<errorMessage, DoneTrue, Call("replaceHTML"), Status("idle")>>)

\* a cycle whose compile failed has returned
C6_Witness == \E r \in Requests : CompileFailed(r) /\ pc[r] = "resolved"

\* C7: when compile succeeds and evaluate() throws, the invocation returns
\* normally and the messages it sent from the compile result on are, in order:
\* done with the error flag false, status=evaluating, one action, status=idle.
C7_EvaluationThrowIsReported ==
  \A r \in Requests :
    EvaluateThrew(r) =>
      /\ pc[r] = "resolved"
      /\ CompileSucceeded(r)
      /\ Sends(After(trace[r], Settles("compile", "fulfilled"))) =
           <<DoneFalse, Status("evaluating"), errorMessage, Status("idle")>>
      /\ CountType(trace[r], "action") = 1
      /\ CountType(trace[r], "success") = 0

\* a cycle compiled, its program threw, and the cycle has returned
C7_Witness == \E r \in Requests : EvaluateThrew(r) /\ Finished(r)

\* C8: bundler.compile is called in a cycle only after every transformer
\* registration of that cycle's preset init succeeded; once a registration has
\* failed, init has failed, the invocation has ended and compile is never called.
C8_CompileOnlyAfterFullInit ==
  \A r \in Requests :
    /\ Has(trace[r], Call("compile")) =>
         (registered[r] = NumTransformers /\ ~InitFailed(r))
    /\ InitFailed(r) => (pc[r] = "rejected" /\ ~Has(trace[r], Call("compile")))
    /\ pc[r] \in {"compile", "afterCompile", "resolved"} => registered[r] = NumTransformers

\* one cycle's init failed after some registrations succeeded, another compiled
C8_Witness ==
  /\ \E r \in Requests : InitFailed(r) /\ registered[r] >= 1
  /\ \E r \in Requests : Has(trace[r], Call("compile"))

\* the kind of a message: a status message is named by its status value
MessageKind(e) == IF e.type = "status" THEN e.val ELSE e.type

CycleOrder == <<"start", "initializing", "done", "evaluating", "success", "idle">>

CycleKinds == {CycleOrder[i] : i \in 1..Len(CycleOrder)}

RECURSIVE Kinds(_)
Kinds(s) == IF s = <<>> THEN <<>> ELSE <<MessageKind(Head(s))>> \o Kinds(Tail(s))

\* the kinds of the start, status, done and success messages of cycle r, in
\* the order sent (action and resize messages left out)
CycleMessages(r) ==
  Kinds(SelectSeq(trace[r], LAMBDA e : e.kind = "send" /\ MessageKind(e) \in CycleKinds))

\* C13: the first message a cycle sends is start, sent exactly once, and the
\* start, status, done and success messages of the cycle follow the order
\* start, initializing, done, evaluating, success, idle: each at most once,
\* some possibly missing, none out of order.
C13_CycleMessagesInFixedOrder ==
  \A r \in Requests :
    Started(r) =>
      /\ Sends(trace[r])[1].type = "start"
      /\ CountType(trace[r], "start") = 1
      /\ IsSubseq(CycleMessages(r), CycleOrder)

\* a cycle sent all six, and a resize between evaluating and success
C13_Witness ==
  \E r \in Requests :
    /\ CycleMessages(r) = CycleOrder
    /\ CountType(trace[r], "resize") = 1

\* C14: every done message carries the field compilationError, false after a
\* compile that succeeded and true after one that failed, and a cycle whose
\* compile has settled has sent exactly one done message.
C14_DoneCarriesCompilationError ==
  \A r \in Requests :
    /\ \A i \in 1..Len(trace[r]) :
         (trace[r][i].kind = "send" /\ trace[r][i].type = "done") =>
           /\ trace[r][i].key = "compilationError"
           /\ trace[r][i].val = BoolStr(CompileFailed(r))
    /\ (CompileFailed(r) \/ CompileSucceeded(r)) => CountType(trace[r], "done") = 1

\* s is an initial part of t
IsPrefix(s, t) == Len(s) <= Len(t) /\ SubSeq(t, 1, Len(s)) = s

C16_IntegrationFailureIsSwallowed ==
  \A r \in Requests :
    integration[r] \in {"threw", "failed"} =>
      /\ Started(r)
      /\ Has(trace[r], Call("initPreset"))
      /\ pc[r] = "rejected" => InitFailed(r)
      /\ CountType(trace[r], "action") =
           (IF CompileFailed(r) \/ EvaluateThrew(r) THEN 1 ELSE 0)

\* the load promise was rejected, and the cycle ran to success and idle
C16_Witness ==
  \E r \in Requests :
    /\ integration[r] = "failed"
    /\ pc[r] = "resolved"
    /\ CountType(trace[r], "success") = 1
    /\ CountType(trace[r], "action") = 0

\* C19: a cycle that has sent success has sent it once and has sent no action
\* message; its compile succeeded and done with the flag false was sent; its
\* evaluate() returned; and success comes after status=evaluating and the
\* return of evaluate(), with status=idle the only thing after it.
C19_SuccessExcludesAction ==
  \A r \in Requests :
    CountType(trace[r], "success") >= 1 =>
      /\ CountType(trace[r], "success") = 1
      /\ CountType(trace[r], "action") = 0
      /\ CompileSucceeded(r)
      /\ ~EvaluateThrew(r)
      /\ IsSubseq(<<DoneFalse, Status("evaluating"), Call("evaluate"), Msg("success", "", "")>>,
                  trace[r])
      /\ After(trace[r], Msg("success", "", "")) = <<Status("idle")>>

\* a cycle has sent success
C19_Witness ==
  \E r \in Requests : pc[r] = "resolved" /\ CountType(trace[r], "success") = 1

----------------------------------------------------------------------------
(* ReactPreset.mapTransformers, ReactPreset.ts:29-76                       *)
(*                                                                         *)
(* A file path is a sequence of one-character strings.  The paths tried    *)
(* are a directory prefix followed by every string of up to MaxTail        *)
(* characters of Alphabet; none holds a line terminator, which is the only *)
(* character the `.` of the first pattern does not match.                  *)

\* Longest file name appended to a directory prefix.
MaxTail == 5

\* the characters of the patterns' extensions, and "a", which no pattern names
Alphabet == {".", "a", "c", "d", "j", "m", "s", "t", "x"}

Slash == <<"/">>
NodeModulesDir == <<"/", "n", "o", "d", "e", "_", "m", "o", "d", "u", "l", "e", "s", "/">>
\* "/node_modules" without the closing slash: not inside the directory
NodeModulesName == <<"/", "n", "o", "d", "e", "_", "m", "o", "d", "u", "l", "e", "s">>

Prefixes == {Slash, NodeModulesDir, NodeModulesName}

\* the file names of exactly n characters
FileNames(n) == [1..n -> Alphabet]

\* String.prototype.startsWith / endsWith
StartsWith(s, p) == Len(s) >= Len(p) /\ SubSeq(s, 1, Len(p)) = p
EndsWith(s, p) == Len(s) >= Len(p) /\ SubSeq(s, Len(s) - Len(p) + 1, Len(s)) = p

\* the strings of (m|c)?  and of  x?
OptMC == {<<>>, <<"m">>, <<"c">>}
OptX == {<<>>, <<"x">>}

\* the strings of  \.(((m|c)?jsx?)|tsx)
JsxSuffixes ==
  {<<".">> \o mc \o <<"j", "s">> \o x : mc \in OptMC, x \in OptX} \cup {<<".", "t", "s", "x">>}

\* the strings of  \.(m|c)?(t|j)sx?
ScriptSuffixes ==
  {<<".">> \o mc \o tj \o <<"s">> \o x : mc \in OptMC, tj \in {<<"t">>, <<"j">>}, x \in OptX}

DtsSuffix == <<".", "d", ".", "t", "s">>
CssSuffix == <<".", "c", "s", "s">>

\* The first pattern without its (?!\/node_modules\/) lookahead.
IsJsxModule_AnyDirectory(path) == \E e \in JsxSuffixes : EndsWith(path, e)

\* /^(?!\/node_modules\/).*\.(((m|c)?jsx?)|tsx)$/.test(filepath)
IsJsxModule(path) ==
  /\ ~StartsWith(path, NodeModulesDir)
  /\ \E e \in JsxSuffixes : EndsWith(path, e)

\* /\.(m|c)?(t|j)sx?$/.test(filepath) && !filepath.endsWith('.d.ts')
IsScriptModule(path) ==
  /\ \E e \in ScriptSuffixes : EndsWith(path, e)
  /\ ~EndsWith(path, DtsSuffix)

\* /\.css$/.test(filepath)
IsCssModule(path) == EndsWith(path, CssSuffix)

\* presets: [['react', { runtime: 'automatic' }]]
ReactPresetOption == <<<<"react", [runtime |-> "automatic"]>>>>

\* plugins: [['react-refresh/babel', { skipEnvCheck: true }]]
RefreshPluginOption == <<<<"react-refresh/babel", [skipEnvCheck |-> TRUE]>>>>

\* a [name, options] pair; an options object without a key has the empty list for it
Binding(name, presets, plugins) == <<name, [presets |-> presets, plugins |-> plugins]>>

\* lines 31-47
BabelRefreshChain ==
  << Binding("babel-transformer", ReactPresetOption, RefreshPluginOption),
     Binding("react-refresh-transformer", <<>>, <<>>) >>

\* lines 51-65
BabelChain == << Binding("babel-transformer", ReactPresetOption, <<>>) >>

\* lines 69-72
CssChain ==
  << Binding("css-transformer", <<>>, <<>>), Binding("style-transformer", <<>>, <<>>) >>

Returns(chain) == [status |-> "ok", chain |-> chain, message |-> <<>>]

\* `No transformer for ${module.filepath}`
NoTransformerFor ==
  <<"N", "o", " ", "t", "r", "a", "n", "s", "f", "o", "r", "m", "e", "r", " ", "f", "o", "r", " ">>

Throws(message) == [status |-> "throw", chain |-> <<>>, message |-> message]

\* A dispatch that ends in an empty chain instead of the throw.
mapTransformers_PassThrough(path) ==
  IF IsJsxModule(path) THEN Returns(BabelRefreshChain)
  ELSE IF IsScriptModule(path) THEN Returns(BabelChain)
  ELSE IF IsCssModule(path) THEN Returns(CssChain)
  ELSE Returns(<<>>)

\* A dispatch that tries the second rule before the first.
mapTransformers_ScriptRuleFirst(path) ==
  IF IsScriptModule(path) THEN Returns(BabelChain)
  ELSE IF IsJsxModule(path) THEN Returns(BabelRefreshChain)
  ELSE IF IsCssModule(path) THEN Returns(CssChain)
  ELSE Throws(NoTransformerFor \o path)

mapTransformers(path) ==
  IF IsJsxModule(path) THEN Returns(BabelRefreshChain)
  ELSE IF IsScriptModule(path) THEN Returns(BabelChain)
  ELSE IF IsCssModule(path) THEN Returns(CssChain)
  ELSE Throws(NoTransformerFor \o path)

NotCalled == [status |-> "none", chain |-> <<>>, message |-> <<>>]

\* the orchestrator is left as constructed while the preset is exercised
MapInit ==
  /\ OrchInit
  /\ PresetIdle
  /\ \E p \in Prefixes, n \in 0..MaxTail : \E t \in FileNames(n) : filepath = p \o t
  /\ result = NotCalled

\* preset.mapTransformers(module)
MapTransformers ==
  /\ result = NotCalled
  /\ result' = mapTransformers(filepath)
  /\ UNCHANGED filepath
  /\ UNCHANGED <<orchVars, presetVars>>

MapNext == MapTransformers

MapSpec == MapInit /\ [][MapNext]_vars

----------------------------------------------------------------------------
(* Properties of mapTransformers                                           *)

HasDot(path) == \E i \in 1..Len(path) : path[i] = "."

\* the characters after the last "." of the path
Extension(path) ==
  LET i == CHOOSE k \in 1..Len(path) : path[k] = "." /\ \A j \in (k + 1)..Len(path) : path[j] # "."
  IN SubSeq(path, i + 1, Len(path))

\* the names of a chain, in order
RECURSIVE ChainNames(_)
ChainNames(chain) ==
  IF chain = <<>> THEN <<>> ELSE <<Head(chain)[1]>> \o ChainNames(Tail(chain))

\* the extensions some rule accepts
ScriptExtensions ==
  { <<"j", "s">>, <<"j", "s", "x">>, <<"m", "j", "s">>, <<"m", "j", "s", "x">>,
    <<"c", "j", "s">>, <<"c", "j", "s", "x">>,
    <<"t", "s">>, <<"t", "s", "x">>, <<"m", "t", "s">>, <<"m", "t", "s", "x">>,
    <<"c", "t", "s">>, <<"c", "t", "s", "x">> }

KnownExtensions == ScriptExtensions \cup {<<"c", "s", "s">>}

UnknownExtension(path) == ~HasDot(path) \/ Extension(path) \notin KnownExtensions

\* C9: a path that matches none of the three dispatch conditions makes
\* mapTransformers throw "No transformer for <path>"; so does every path ending
\* in .d.ts and every path whose extension no rule names; and a call that
\* returns gives a chain of at least one transformer.
C9_UnmatchedPathThrowsNamingIt ==
  result # NotCalled =>
    /\ result.status \in {"ok", "throw"}
    /\ (~IsJsxModule(filepath) /\ ~IsScriptModule(filepath) /\ ~IsCssModule(filepath))
         => result = Throws(NoTransformerFor \o filepath)
    /\ (EndsWith(filepath, DtsSuffix) \/ UnknownExtension(filepath))
         => (result.status = "throw" /\ EndsWith(result.message, filepath))
    /\ result.status = "ok" => Len(result.chain) >= 1

\* mapTransformers was called with a path ending in .d.ts
C9_Witness ==
  /\ result.status = "throw"
  /\ EndsWith(filepath, DtsSuffix)

\* C10: a path outside /node_modules/ with the extension js, jsx or tsx gets
\* babel-transformer then react-refresh-transformer, although the second rule
\* accepts it too; a path with the extension css gets css-transformer then
\* style-transformer.
C10_ChainOfFirstMatchingRule ==
  result # NotCalled =>
    /\ (/\ ~StartsWith(filepath, NodeModulesDir)
        /\ HasDot(filepath)
        /\ Extension(filepath) \in {<<"j", "s">>, <<"j", "s", "x">>, <<"t", "s", "x">>})
         => /\ result.status = "ok"
            /\ ChainNames(result.chain) = <<"babel-transformer", "react-refresh-transformer">>
    /\ (HasDot(filepath) /\ Extension(filepath) = <<"c", "s", "s">>)
         => /\ result.status = "ok"
            /\ ChainNames(result.chain) = <<"css-transformer", "style-transformer">>

\* mapTransformers was called with /a.jsx
C10_Witness ==
  /\ filepath = <<"/", "a", ".", "j", "s", "x">>
  /\ result.status = "ok"

\* the dispatch conditions that accept the path
MatchingRules(path) ==
  {i \in 1..3 : \/ i = 1 /\ IsJsxModule(path)
                \/ i = 2 /\ IsScriptModule(path)
                \/ i = 3 /\ IsCssModule(path)}

\* C18 as stated: at most one rule's condition accepts any path.
C18_RulesMutuallyExclusive ==
  result # NotCalled => Cardinality(MatchingRules(filepath)) <= 1

\* C18: the css rule's condition never accepts a path that one of the two
\* script rules accepts, but every path the first rule accepts the second
\* accepts too; such a path gets the first rule's chain, a path only the
\* second accepts gets the second's, so the chain depends on the first rule
\* being tried before the second and on no other order.
C18_OnlyScriptRulesOverlap ==
  result # NotCalled =>
    /\ MatchingRules(filepath) \in {{}, {1, 2}, {2}, {3}}
    /\ 1 \in MatchingRules(filepath) => result = Returns(BabelRefreshChain)
    /\ MatchingRules(filepath) = {2} => result = Returns(BabelChain)
    /\ MatchingRules(filepath) = {3} => result = Returns(CssChain)

\* mapTransformers was called with /a.js, which the first two rules accept
C18_Witness ==
  /\ filepath = <<"/", "a", ".", "j", "s">>
  /\ MatchingRules(filepath) = {1, 2}
  /\ result = Returns(BabelRefreshChain)

\* the plugins every transformer of a chain is configured with, in order
RECURSIVE ChainPlugins(_)
ChainPlugins(chain) ==
  IF chain = <<>> THEN <<>> ELSE Head(chain)[2].plugins \o ChainPlugins(Tail(chain))

UsesReactRefresh(chain) ==
  \/ \E i \in 1..Len(chain) : chain[i][1] = "react-refresh-transformer"
  \/ ChainPlugins(chain) # <<>>

\* C20: a path that starts with /node_modules/ gets the babel-only chain or
\* the css chain or the throw, and a path that ends in .ts gets the
\* babel-only chain or the throw: never react-refresh-transformer, never the
\* react-refresh/babel plugin.
C20_NoRefreshInNodeModulesOrTs ==
  result # NotCalled =>
    /\ StartsWith(filepath, NodeModulesDir) =>
         /\ result \in {Returns(BabelChain), Returns(CssChain),
                        Throws(NoTransformerFor \o filepath)}
         /\ ~UsesReactRefresh(result.chain)
    /\ EndsWith(filepath, <<".", "t", "s">>) =>
         /\ result \in {Returns(BabelChain), Throws(NoTransformerFor \o filepath)}
         /\ ~UsesReactRefresh(result.chain)

\* mapTransformers was called with /node_modules/a.js
C20_Witness ==
  /\ filepath = NodeModulesDir \o <<"a", ".", "j", "s">>
  /\ result = Returns(BabelChain)


(***************************************************************************)
(* PresetSpec: presets/registry.ts getPreset and                           *)
(* ReactPreset.augmentDependencies.                                        *)
(***************************************************************************)

\* how many times augmentDependencies is applied to one dependency map
MaxAugment == 2

\* names a compile request may carry in its template field
PresetNames == {"react", "solid", "vue", "React", ""}

\* PRESET_MAP: the presets constructed once, when the module is loaded
PRESET_MAP ==
  [react |-> [class |-> "ReactPreset", registered |-> TRUE],
   solid |-> [class |-> "SolidPreset", registered |-> TRUE]]

\* `new ReactPreset()` of the fallback branch: an instance of its own
NewReactPreset == [class |-> "ReactPreset", registered |-> FALSE]

UnknownPresetWarning(name) == <<"Unknown preset ", name, ", falling back to React">>

GetPresetReturns(p, logged) ==
  [status |-> "returned", class |-> p.class, registered |-> p.registered,
   warn |-> logged]

GetPresetThrows(name) ==
  [status |-> "threw", class |-> "", registered |-> FALSE, warn |-> <<>>]

getPreset_Unguarded(name) ==
  IF name \in DOMAIN PRESET_MAP
    THEN GetPresetReturns(PRESET_MAP[name], <<>>)
    ELSE GetPresetThrows(name)

\* Map.get is undefined for every name that is not a key of the map
getPreset(name) ==
  IF name \in DOMAIN PRESET_MAP
    THEN GetPresetReturns(PRESET_MAP[name], <<>>)
    ELSE GetPresetReturns(NewReactPreset, <<UnknownPresetWarning(name)>>)

Packages == {"react", "react-refresh", "core-js"}
Versions == {"", "^0.11.0", "^0.14.0", "3.22.7"}

\* every DepMap over Packages: a package is absent or has a version string
DepMaps == UNION {[D -> Versions] : D \in SUBSET Packages}

\* dependencies[name] = version
SetDependency(d, name, version) ==
  [p \in (DOMAIN d) \cup {name} |-> IF p = name THEN version ELSE d[p]]

\* !dependencies[name]: the entry is missing, or it is the empty string
Falsy(d, name) == name \notin DOMAIN d \/ d[name] = ""

augmentDependencies_FreshMap(d) ==
  SetDependency(
    SetDependency(<<>>, "react-refresh",
                  IF Falsy(d, "react-refresh") THEN "^0.11.0" ELSE d["react-refresh"]),
    "core-js", "3.22.7")

augmentDependencies_Overwrite(d) ==
  SetDependency(SetDependency(d, "react-refresh", "^0.11.0"), "core-js", "3.22.7")

augmentDependencies(d) ==
  SetDependency(
    IF Falsy(d, "react-refresh")
      THEN SetDependency(d, "react-refresh", "^0.11.0")
      ELSE d,
    "core-js", "3.22.7")

PresetInit ==
  /\ OrchInit
  /\ MapIdle
  /\ presetName \in PresetNames
  /\ preset = [status |-> "none", class |-> "", registered |-> FALSE]
  /\ warnings = <<>>
  /\ depsIn \in DepMaps
  /\ deps = depsIn
  /\ calls = 0

GetPreset ==
  /\ preset.status = "none"
  /\ LET got == getPreset(presetName) IN
       /\ preset' = [status |-> got.status, class |-> got.class,
                     registered |-> got.registered]
       /\ warnings' = warnings \o got.warn
  /\ UNCHANGED <<presetName, depsIn, deps, calls>>
  /\ UNCHANGED <<orchVars, mapVars>>

\* the preset that getPreset returned is handed the dependency map
AugmentDependencies ==
  /\ preset.status = "returned"
  /\ preset.class = "ReactPreset"
  /\ calls < MaxAugment
  /\ deps' = augmentDependencies(deps)
  /\ calls' = calls + 1
  /\ UNCHANGED <<presetName, preset, warnings, depsIn>>
  /\ UNCHANGED <<orchVars, mapVars>>

PresetNext == GetPreset \/ AugmentDependencies

PresetSpec == PresetInit /\ [][PresetNext]_vars

(***************************************************************************)
(* Properties of augmentDependencies and getPreset.                        *)
(***************************************************************************)

\* C11: augmentDependencies is idempotent and never removes a key: a second
\* call on the map the first call returned changes nothing, and every
\* package of the caller's map is still a key of the map afterwards.
C11_AugmentIdempotentKeepsKeys ==
  [][calls' = calls + 1 =>
       /\ DOMAIN depsIn \subseteq DOMAIN deps'
       /\ DOMAIN deps \subseteq DOMAIN deps'
       /\ (calls >= 1 => deps' = deps)]_vars

\* a map with a package of the caller's own has been augmented twice
C11_Witness ==
  /\ calls = 2
  /\ "react" \in DOMAIN depsIn
  /\ "react" \in DOMAIN deps
  /\ deps # depsIn

\* C12: getPreset never fails: a registered name gets the preset registered
\* under it and nothing is logged, any other name gets a React preset and
\* one warning that names it.
C12_GetPresetNeverFails ==
  preset.status # "none" =>
    /\ preset.status = "returned"
    /\ presetName \in DOMAIN PRESET_MAP =>
         /\ preset.registered
         /\ preset.class = PRESET_MAP[presetName].class
         /\ warnings = <<>>
    /\ presetName \notin DOMAIN PRESET_MAP =>
         /\ preset.class = "ReactPreset"
         /\ Len(warnings) = 1
         /\ warnings[1][2] = presetName

\* an unregistered name fell back to React, with its warning
C12_Witness ==
  /\ presetName = "vue"
  /\ preset.status = "returned"
  /\ preset.class = "ReactPreset"
  /\ Len(warnings) = 1

\* C17 as the spec states it: a react-refresh entry of the caller's map is
\* never overwritten, whatever its value.
C17_RefreshEntryNeverOverwritten ==
  (calls >= 1 /\ "react-refresh" \in DOMAIN depsIn) =>
    deps["react-refresh"] = depsIn["react-refresh"]

\* C17: a non-empty react-refresh version of the caller is kept; a missing
\* or empty one becomes ^0.11.0; core-js is 3.22.7 whatever the caller
\* gave; every other package keeps its version and no package is added.
C17_RefreshKeptUnlessFalsy ==
  calls >= 1 =>
    /\ deps["react-refresh"] =
         IF "react-refresh" \in DOMAIN depsIn /\ depsIn["react-refresh"] # ""
           THEN depsIn["react-refresh"]
           ELSE "^0.11.0"
    /\ deps["core-js"] = "3.22.7"
    /\ DOMAIN deps = DOMAIN depsIn \cup {"react-refresh", "core-js"}
    /\ \A p \in DOMAIN depsIn \ {"react-refresh", "core-js"} : deps[p] = depsIn[p]

\* the caller's react-refresh version was kept and its core-js replaced
C17_Witness ==
  /\ calls >= 1
  /\ "react-refresh" \in DOMAIN depsIn
  /\ depsIn["react-refresh"] = "^0.14.0"
  /\ deps["react-refresh"] = "^0.14.0"
  /\ "core-js" \in DOMAIN depsIn
  /\ depsIn["core-js"] = "^0.14.0"
  /\ deps["core-js"] = "3.22.7"
  /\ "react" \in DOMAIN depsIn

====
